---- MODULE Spec2Model ----
(***************************************************************************)
(* A model of the Oura API client (src/oura_ring.py, class OuraClient):    *)
(* the date normaliser _format_dates, the request helper _make_request,    *)
(* the pagination loop _make_paginated_request and the facade methods      *)
(* get_* that compose them; and of the v1 client (src/oura_ring_v1.py),    *)
(* whose facade methods send one request each.                             *)
(*                                                                         *)
(* Python strings that the code inspects character by character (date      *)
(* literals) are sequences of one-character strings; strings the code only *)
(* passes along (tokens, url slugs, document ids) are TLA+ strings.        *)
(* An optional argument is None or Str(s); a JSON value is JNull or        *)
(* JStr(s).                                                                *)
(***************************************************************************)
EXTENDS Integers, Sequences, FiniteSets, TLC

VARIABLES
    token,      \* self._personal_access_token
    session,    \* self.session: its headers, and how often it was closed
    scope,      \* where the client's user is with respect to a with-block
    today,      \* the local calendar date date.today() returns
    clock,      \* the local time of day datetime.today() returns with it
    pc,         \* position of the current facade call
    call,       \* arguments of the current facade call
    fmt,        \* result of _format_dates in the current call
    helper,     \* the helper the facade method called, "" before it calls one
    params,     \* the params dict of _make_paginated_request
    response_data, \* the accumulator of _make_paginated_request
    inflight,   \* the request session.request is blocked on, if any
    requests,   \* wire log: requests issued by the current call, in order
    served,     \* wire log: responses served to the current call, in order
    outcome,    \* what the caller of the facade method observes
    previous,   \* how the call before the current one went
    other,      \* the frame of a call running in another thread
    ncalls      \* number of facade calls made on this client

vars == <<token, session, scope, today, clock, pc, call, fmt, helper, params,
          response_data, inflight, requests, served, outcome, previous,
          other, ncalls>>

----------------------------------------------------------------------------
(* Python values *)

None == [some |-> FALSE]
Str(s) == [some |-> TRUE, s |-> s]

\* a test for None only (`is not None`): the empty string passes it
NotNone(a) == a.some

\* Python truthiness of an Optional[str] argument: None and "" are falsy.
\* (date arguments are character sequences)
Truthy(a) == a.some /\ a.s # <<>>

\* the same test on an argument held as a TLA+ string (document_id)
TruthyStr(a) == a.some /\ a.s # ""

JNull == [t |-> "null"]
JStr(s) == [t |-> "str", v |-> s]

\* a test for null only (`is not None`): "" passes it
JNotNull(j) == j.t = "str"

\* Python truthiness of a decoded JSON value: null and "" are falsy.
JTruthy(j) == j.t = "str" /\ j.v # ""

EmptyDict == [k \in {} |-> None]

\* dict.setdefault(k, v): an existing key keeps its value
DictSetDefault(d, k, v) ==
    [x \in (DOMAIN d) \cup {k} |-> IF x \in DOMAIN d THEN d[x] ELSE v]

\* d[k] = v on a dict
DictSet(d, k, v) == [x \in (DOMAIN d) \cup {k} |-> IF x = k THEN v ELSE d[x]]

----------------------------------------------------------------------------
(* datetime.date *)

Digits == <<"0", "1", "2", "3", "4", "5", "6", "7", "8", "9">>

IsDigit(c) == \E i \in 1..10 : Digits[i] = c

DigitVal(c) == (CHOOSE i \in 1..10 : Digits[i] = c) - 1

DigitChar(n) == Digits[n + 1]

AllDigits(s) == \A i \in 1..Len(s) : IsDigit(s[i])

RECURSIVE ParseInt(_)
ParseInt(s) ==
    IF s = <<>> THEN 0
    ELSE 10 * ParseInt(SubSeq(s, 1, Len(s) - 1)) + DigitVal(s[Len(s)])

IsLeap(y) == y % 4 = 0 /\ (y % 100 # 0 \/ y % 400 = 0)

DaysInMonth(y, m) ==
    IF m = 2 THEN (IF IsLeap(y) THEN 29 ELSE 28)
    ELSE IF m \in {4, 6, 9, 11} THEN 30 ELSE 31

\* date(year, month, day): the constructor's range checks
\* (MINYEAR = 1, MAXYEAR = 9999)
ValidYMD(y, m, d) ==
    /\ y >= 1 /\ y <= 9999
    /\ m >= 1 /\ m <= 12
    /\ d >= 1 /\ d <= DaysInMonth(y, m)

Date(y, m, d) == [year |-> y, month |-> m, day |-> d]

ValueError(why) == [ok |-> FALSE, type |-> "ValueError", why |-> why]
OverflowError == [ok |-> FALSE, type |-> "OverflowError", why |-> "date value out of range"]
Ok(v) == [ok |-> TRUE, val |-> v]

\* date.fromisoformat(s) for the calendar forms YYYY-MM-DD and YYYYMMDD
\* (the ISO week forms YYYY-Www-D are not among the inputs modelled).
FromIsoFormat(s) ==
    IF Len(s) = 10
    THEN IF /\ s[5] = "-" /\ s[8] = "-"
            /\ AllDigits(SubSeq(s, 1, 4))
            /\ AllDigits(SubSeq(s, 6, 7))
            /\ AllDigits(SubSeq(s, 9, 10))
         THEN LET y == ParseInt(SubSeq(s, 1, 4))
                  m == ParseInt(SubSeq(s, 6, 7))
                  d == ParseInt(SubSeq(s, 9, 10))
              IN IF ValidYMD(y, m, d) THEN Ok(Date(y, m, d))
                 ELSE ValueError("out of range")
         ELSE ValueError("Invalid isoformat string")
    ELSE IF Len(s) = 8
    THEN IF AllDigits(s)
         THEN LET y == ParseInt(SubSeq(s, 1, 4))
                  m == ParseInt(SubSeq(s, 5, 6))
                  d == ParseInt(SubSeq(s, 7, 8))
              IN IF ValidYMD(y, m, d) THEN Ok(Date(y, m, d))
                 ELSE ValueError("out of range")
         ELSE ValueError("Invalid isoformat string")
    ELSE ValueError("Invalid isoformat string")

\* str(date) = date.isoformat(): "%04d-%02d-%02d"
IsoFormat(dt) ==
    << DigitChar(dt.year \div 1000), DigitChar((dt.year \div 100) % 10),
       DigitChar((dt.year \div 10) % 10), DigitChar(dt.year % 10), "-",
       DigitChar(dt.month \div 10), DigitChar(dt.month % 10), "-",
       DigitChar(dt.day \div 10), DigitChar(dt.day % 10) >>

\* >= in place of >: equal dates count as out of order
DateGE(a, b) ==
    \/ a.year > b.year
    \/ a.year = b.year /\ a.month > b.month
    \/ a.year = b.year /\ a.month = b.month /\ a.day >= b.day

\* a comparison that stops at the month
DateGTMonth(a, b) ==
    \/ a.year > b.year
    \/ a.year = b.year /\ a.month > b.month

\* date.__gt__: dates compare as (year, month, day)
DateGT(a, b) ==
    \/ a.year > b.year
    \/ a.year = b.year /\ a.month > b.month
    \/ a.year = b.year /\ a.month = b.month /\ a.day > b.day

\* one day back with February taken as 28 days in every year
MinusOneDayNoLeap(dt) ==
    IF dt.day > 1 THEN Ok(Date(dt.year, dt.month, dt.day - 1))
    ELSE IF dt.month > 1
    THEN Ok(Date(dt.year, dt.month - 1,
                 IF dt.month - 1 = 2 THEN 28 ELSE DaysInMonth(dt.year, dt.month - 1)))
    ELSE IF dt.year > 1 THEN Ok(Date(dt.year - 1, 12, 31))
    ELSE OverflowError

\* date - timedelta(days=1)
MinusOneDay(dt) ==
    IF dt.day > 1 THEN Ok(Date(dt.year, dt.month, dt.day - 1))
    ELSE IF dt.month > 1
    THEN Ok(Date(dt.year, dt.month - 1, DaysInMonth(dt.year, dt.month - 1)))
    ELSE IF dt.year > 1 THEN Ok(Date(dt.year - 1, 12, 31))
    ELSE OverflowError

\* _format_dates with the default start taken from today, not from end
FormatDatesStartFromToday(start_date, end_date, now) ==
    LET end == IF Truthy(end_date) THEN FromIsoFormat(end_date.s) ELSE Ok(now)
    IN IF ~end.ok THEN end
       ELSE LET start == IF Truthy(start_date) THEN FromIsoFormat(start_date.s)
                         ELSE MinusOneDay(now)
            IN IF ~start.ok THEN start
               ELSE IF DateGT(start.val, end.val) THEN ValueError("Start date greater than end date")
               ELSE Ok(<<IsoFormat(start.val), IsoFormat(end.val)>>)

\* _format_dates with the default end taken as the day before today
FormatDatesEndYesterday(start_date, end_date, now) ==
    LET end == IF Truthy(end_date) THEN FromIsoFormat(end_date.s) ELSE MinusOneDay(now)
    IN IF ~end.ok THEN end
       ELSE LET start == IF Truthy(start_date) THEN FromIsoFormat(start_date.s)
                         ELSE MinusOneDay(end.val)
            IN IF ~start.ok THEN start
               ELSE IF DateGT(start.val, end.val) THEN ValueError("Start date greater than end date")
               ELSE Ok(<<IsoFormat(start.val), IsoFormat(end.val)>>)

\* OuraClient._format_dates(start_date, end_date), with date.today() = now.
\* The result is Ok(<<str(start), str(end)>>) or the exception raised.
FormatDates(start_date, end_date, now) ==
    LET end == IF Truthy(end_date) THEN FromIsoFormat(end_date.s) ELSE Ok(now)
    IN IF ~end.ok THEN end
       ELSE LET start == IF Truthy(start_date) THEN FromIsoFormat(start_date.s)
                         ELSE MinusOneDay(end.val)
            IN IF ~start.ok THEN start
               ELSE IF DateGT(start.val, end.val) THEN ValueError("Start date greater than end date")
               ELSE Ok(<<IsoFormat(start.val), IsoFormat(end.val)>>)

----------------------------------------------------------------------------
(* datetime.datetime *)

Naive == [aware |-> FALSE]
Aware(minutes) == [aware |-> TRUE, minutes |-> minutes]

\* datetime(year, month, day, hour, minute, second, microsecond, tzinfo);
\* tz is Naive or Aware(the UTC offset in minutes)
DateTime(d, h, mi, sec, us, tz) ==
    [date |-> d, hour |-> h, minute |-> mi, second |-> sec,
     microsecond |-> us, tz |-> tz]

TypeError == [ok |-> FALSE, type |-> "TypeError",
              why |-> "can't compare offset-naive and offset-aware datetimes"]

\* "%d": no zero padding
TwoNoPad(n) ==
    IF n % 100 < 10 THEN <<DigitChar(n % 10)>>
    ELSE <<DigitChar((n \div 10) % 10), DigitChar(n % 10)>>

\* "%02d"
Two(n) == <<DigitChar((n \div 10) % 10), DigitChar(n % 10)>>

\* the time part HH:MM, HH:MM:SS or HH:MM:SS.ffffff of an ISO string (the
\* fraction may be set off by a comma as well)
ParseTime(s) ==
    IF /\ Len(s) \in {5, 8, 15}
       /\ AllDigits(SubSeq(s, 1, 2)) /\ s[3] = ":" /\ AllDigits(SubSeq(s, 4, 5))
       /\ Len(s) >= 8 => s[6] = ":" /\ AllDigits(SubSeq(s, 7, 8))
       /\ Len(s) = 15 => s[9] \in {".", ","} /\ AllDigits(SubSeq(s, 10, 15))
    THEN LET h == ParseInt(SubSeq(s, 1, 2))
             mi == ParseInt(SubSeq(s, 4, 5))
             sec == IF Len(s) >= 8 THEN ParseInt(SubSeq(s, 7, 8)) ELSE 0
             us == IF Len(s) = 15 THEN ParseInt(SubSeq(s, 10, 15)) ELSE 0
         IN IF h <= 23 /\ mi <= 59 /\ sec <= 59
            THEN Ok([hour |-> h, minute |-> mi, second |-> sec,
                     microsecond |-> us])
            ELSE ValueError("out of range")
    ELSE ValueError("Invalid isoformat string")

\* the UTC offset of an ISO string: nothing, Z, +HH:MM or -HH:MM.  The
\* two numbers are not range-checked one by one: timezone() wants the
\* offset as a whole strictly between -24 and 24 hours.
ParseOffset(s) ==
    IF s = <<>> THEN Ok(Naive)
    ELSE IF s = <<"Z">> THEN Ok(Aware(0))
    ELSE IF /\ Len(s) = 6 /\ s[1] \in {"+", "-"}
            /\ AllDigits(SubSeq(s, 2, 3)) /\ s[4] = ":"
            /\ AllDigits(SubSeq(s, 5, 6))
    THEN LET h == ParseInt(SubSeq(s, 2, 3))
             mi == ParseInt(SubSeq(s, 5, 6))
             off == IF s[1] = "-" THEN 0 - (60 * h + mi) ELSE 60 * h + mi
         IN IF 60 * h + mi < 1440
            THEN Ok(Aware(off))
            ELSE ValueError("out of range")
    ELSE ValueError("Invalid isoformat string")

\* a part of an ISO string that is not of the form the parser reads
BadForm(r) == ~r.ok /\ r.why = "Invalid isoformat string"

\* datetime(...) from the parsed parts d, t and z of an ISO string.
\* fromisoformat reads the form of the whole string, date, time and offset,
\* before any number is range-checked: a badly formed part anywhere is the
\* error raised, and only a well-formed string can be out of range.
Combine(d, t, z) ==
    IF BadForm(d) THEN d
    ELSE IF BadForm(t) THEN t
    ELSE IF BadForm(z) THEN z
    ELSE IF ~z.ok THEN z
    ELSE IF ~d.ok THEN d
    ELSE IF ~t.ok THEN t
    ELSE Ok(DateTime(d.val, t.val.hour, t.val.minute, t.val.second,
                     t.val.microsecond, z.val))

Midnight == [hour |-> 0, minute |-> 0, second |-> 0, microsecond |-> 0]

\* datetime.fromisoformat(s) for a calendar date alone (YYYY-MM-DD,
\* YYYYMMDD) and for YYYY-MM-DD, any one separator character, HH:MM,
\* HH:MM:SS or HH:MM:SS.ffffff, and after the seconds or the fraction
\* nothing, Z or +HH:MM / -HH:MM (the other forms the parser takes are not
\* among the inputs modelled).
DateTimeFromIsoFormat(s) ==
    IF Len(s) \in {8, 10}
    THEN Combine(FromIsoFormat(s), Ok(Midnight), Ok(Naive))
    ELSE IF Len(s) \in {16, 19, 20, 25}
    THEN Combine(FromIsoFormat(SubSeq(s, 1, 10)),
                 ParseTime(SubSeq(s, 12, IF Len(s) = 16 THEN 16 ELSE 19)),
                 ParseOffset(SubSeq(s, 20, Len(s))))
    ELSE IF Len(s) \in {26, 27, 32}
    THEN Combine(FromIsoFormat(SubSeq(s, 1, 10)),
                 ParseTime(SubSeq(s, 12, 26)),
                 ParseOffset(SubSeq(s, 27, Len(s))))
    ELSE ValueError("Invalid isoformat string")

\* str(datetime) = datetime.isoformat(sep=" "): the microseconds are
\* written when they are not zero, the offset when the datetime is aware
DateTimeStr(dt) ==
    IsoFormat(dt.date) \o <<" ">>
        \o Two(dt.hour) \o <<":">> \o Two(dt.minute) \o <<":">> \o Two(dt.second)
        \o (IF dt.microsecond = 0 THEN <<>>
            ELSE <<".">> \o Two(dt.microsecond \div 10000)
                        \o Two(dt.microsecond \div 100)
                        \o Two(dt.microsecond))
        \o (IF ~dt.tz.aware THEN <<>>
            ELSE LET a == IF dt.tz.minutes < 0 THEN 0 - dt.tz.minutes
                          ELSE dt.tz.minutes
                 IN <<IF dt.tz.minutes < 0 THEN "-" ELSE "+">>
                        \o Two(a \div 60) \o <<":">> \o Two(a % 60))

\* date.toordinal(): days since 0001-01-01, that day being 1
RECURSIVE DaysBeforeMonth(_, _)
DaysBeforeMonth(y, m) ==
    IF m = 1 THEN 0 ELSE DaysBeforeMonth(y, m - 1) + DaysInMonth(y, m - 1)

ToOrdinal(d) ==
    365 * (d.year - 1) + ((d.year - 1) \div 4) - ((d.year - 1) \div 100)
        + ((d.year - 1) \div 400) + DaysBeforeMonth(d.year, d.month) + d.day

\* the instant a datetime denotes, as <<day, minute of the day, second,
\* microsecond>> in UTC for an aware datetime and as written for a naive one
Instant(dt) ==
    LET mins == 60 * dt.hour + dt.minute
                    - (IF dt.tz.aware THEN dt.tz.minutes ELSE 0)
        day == ToOrdinal(dt.date)
                    + (IF mins < 0 THEN 0 - 1 ELSE IF mins >= 1440 THEN 1 ELSE 0)
    IN <<day, (mins + 1440) % 1440, dt.second, dt.microsecond>>

\* x is after y, both <<day, minute, second, microsecond>>
InstantGT(x, y) ==
    \/ x[1] > y[1]
    \/ x[1] = y[1] /\ x[2] > y[2]
    \/ x[1] = y[1] /\ x[2] = y[2] /\ x[3] > y[3]
    \/ x[1] = y[1] /\ x[2] = y[2] /\ x[3] = y[3] /\ x[4] > y[4]

\* a comparison of datetimes that ignores the time of day
DateTimeGTDay(a, b) == Instant(a)[1] > Instant(b)[1]

\* datetime.__gt__ on two naive or two aware datetimes
DateTimeGT(a, b) == InstantGT(Instant(a), Instant(b))

\* datetime - timedelta(days=1): the same time on the day before
DateTimeMinusOneDay(dt) ==
    LET d == MinusOneDay(dt.date)
    IN IF d.ok THEN Ok([dt EXCEPT !.date = d.val]) ELSE d

\* if start > end: raise ValueError(...); return str(start), str(end).
\* A naive and an aware datetime do not compare: start > end raises
\* TypeError.
CheckedDatetimes(start, end) ==
    IF start.tz.aware # end.tz.aware THEN TypeError
    ELSE IF DateTimeGT(start, end)
    THEN ValueError("Start datetime greater than end datetime")
    ELSE Ok(<<DateTimeStr(start), DateTimeStr(end)>>)

\* _format_datetimes from the comparison on, for a start that was parsed or
\* defaulted, or the exception that raised
WithStart(start, end) ==
    IF start.ok THEN CheckedDatetimes(start.val, end) ELSE start

\* start = fromisoformat(start_datetime) if start_datetime else
\* end - timedelta(days=1), for an end that was parsed or defaulted, or the
\* exception that raised
WithEnd(start_datetime, end) ==
    IF ~end.ok THEN end
    ELSE WithStart(IF Truthy(start_datetime)
                   THEN DateTimeFromIsoFormat(start_datetime.s)
                   ELSE DateTimeMinusOneDay(end.val),
                   end.val)

\* OuraClient._format_datetimes(start_datetime, end_datetime), with
\* datetime.today() = now.  The result is Ok(<<str(start), str(end)>>) or
\* the exception raised.
FormatDatetimes(start_datetime, end_datetime, now) ==
    WithEnd(start_datetime,
            IF Truthy(end_datetime)
            THEN DateTimeFromIsoFormat(end_datetime.s) ELSE Ok(now))

----------------------------------------------------------------------------
(* The facade table: one row per get_* method of OuraClient.               *)
(*   slug  : the resource path under the API root                          *)
(*   dates : "dates" when the method calls _format_dates, "datetimes"   *)
(*           when it calls _format_datetimes, "none" when it takes no date *)
(*           arguments                                                     *)
(*   doc   : what the method calls when document_id is truthy:             *)
(*           "single" = _make_request, "paginated" = _make_paginated_request*)
(*           "none" = the method has no document_id argument               *)

API_URL == "https://api.ouraring.com"

Row(slug, dates, doc) == [slug |-> slug, dates |-> dates, doc |-> doc]

Endpoint ==
    [ get_personal_info      |-> Row("v2/usercollection/personal_info", "none", "none"),
      get_rest_mode_period   |-> Row("v2/usercollection/rest_mode_period", "dates", "single"),
      get_ring_configuration |-> Row("v2/usercollection/ring_configuration", "dates", "single"),
      get_sleep_time         |-> Row("v2/usercollection/sleep_time", "dates", "single"),
      get_daily_sleep        |-> Row("v2/usercollection/daily_sleep", "dates", "single"),
      get_daily_spo2         |-> Row("v2/usercollection/daily_spo2", "dates", "single"),
      get_daily_stress       |-> Row("v2/usercollection/daily_stress", "dates", "single"),
      get_enhanced_tag       |-> Row("v2/usercollection/enhanced_tag", "dates", "paginated"),
      get_daily_activity     |-> Row("v2/usercollection/daily_activity", "dates", "single"),
      get_daily_readiness    |-> Row("v2/usercollection/daily_readiness", "dates", "single"),
      get_heart_rate         |-> Row("v2/usercollection/heartrate", "datetimes", "none"),
      get_sleep_periods      |-> Row("v2/usercollection/sleep", "dates", "single"),
      get_sessions           |-> Row("v2/usercollection/session", "dates", "single"),
      get_tags               |-> Row("v2/usercollection/tag", "dates", "single"),
      get_workouts           |-> Row("v2/usercollection/workout", "dates", "single") ]

AllMethods == DOMAIN Endpoint

DocMethods == {m \in AllMethods : Endpoint[m].doc # "none"}

----------------------------------------------------------------------------
(* Requests and responses *)

\* The arguments of session.request in _make_request.  The url
\* f"{API_URL}/{url_slug}" is kept as its "/"-separated parts; a call made
\* without a params keyword and one made with params={} both send no query.
Request(method, url_slug, prm, headers) ==
    [method |-> method, url |-> <<API_URL>> \o url_slug, params |-> prm,
     headers |-> headers, timeout |-> 60]

\* What the upstream can answer: the transport fails (session.request
\* raises), or an HTTP response with a status and a body; a body is not
\* JSON, or decodes to an object.
TransportFailure == [kind |-> "error"]
HttpResponse(status, body) == [kind |-> "http", status |-> status, body |-> body]
NotJson == [json |-> FALSE]
Json(obj) == [json |-> TRUE, val |-> obj]

\* {"data": data, "next_token": tok}
Page(data, tok) == [data |-> data, next_token |-> tok]
\* {"data": data}: a page body with no next_token field
PageNoToken(data) == [data |-> data]
\* a single record object, as served for <resource>/<document_id>
Document(id) == [id |-> id]

\* Python values a facade method returns
PyList(items) == [py |-> "list", items |-> items]
PyDict(obj) == [py |-> "dict", obj |-> obj]

Returned(v) == [kind |-> "return", value |-> v]
Raised(type) == [kind |-> "raise", error |-> type]
Pending == [kind |-> "none"]

\* no status check at all
RaisesForNoStatus(status) == FALSE

\* Response.raise_for_status(): HTTPError for 4xx and 5xx
RaisesForStatus(status) == status >= 400 /\ status < 600

\* OuraClient._make_request once session.request has its answer:
\* Ok(decoded body) or the exception that propagates.
MakeRequest(resp) ==
    IF resp.kind = "error" THEN [ok |-> FALSE, type |-> "ConnectionError"]
    ELSE IF RaisesForStatus(resp.status) THEN [ok |-> FALSE, type |-> "HTTPError"]
    ELSE IF ~resp.body.json THEN [ok |-> FALSE, type |-> "JSONDecodeError"]
    ELSE Ok(resp.body.val)

\* response_data = response["data"]: the page replaces the accumulator
AccumulateOverwrite(acc, data) == data

\* response_data += response["data"]
Accumulate(acc, data) == acc \o data

\* One pass of the while loop of _make_paginated_request, from the result r
\* of its _make_request call: the loop's variables afterwards, whether the
\* loop is left, and how.
PaginatedStep(prm, acc, r) ==
    IF ~r.ok
    THEN [done |-> TRUE, params |-> prm, response_data |-> acc,
          outcome |-> Raised(r.type)]
    ELSE IF "data" \notin DOMAIN r.val
    THEN [done |-> TRUE, params |-> prm, response_data |-> acc,
          outcome |-> Raised("KeyError")]
    ELSE LET acc2 == Accumulate(acc, r.val.data)
         IN IF "next_token" \notin DOMAIN r.val
            THEN [done |-> TRUE, params |-> prm, response_data |-> acc2,
                  outcome |-> Raised("KeyError")]
            ELSE IF JTruthy(r.val.next_token)
            THEN [done |-> FALSE,
                  params |-> DictSet(prm, "next_token", r.val.next_token.v),
                  response_data |-> acc2, outcome |-> Pending]
            ELSE [done |-> TRUE, params |-> prm, response_data |-> acc2,
                  outcome |-> Returned(PyList(acc2))]

\* the dates in each other's place
DateParamsSwapped(start, end) ==
    [k \in {"start_date", "end_date"} |-> IF k = "start_date" THEN end ELSE start]

\* params={"start_date": start, "end_date": end}
DateParams(start, end) ==
    [k \in {"start_date", "end_date"} |-> IF k = "start_date" THEN start ELSE end]

\* params={"start_datetime": start, "end_datetime": end}
DateTimeParams(start, end) ==
    [k \in {"start_datetime", "end_datetime"} |->
        IF k = "start_datetime" THEN start ELSE end]

\* what date.today() and datetime.today() return at a reading of the
\* local clock: the first is the date of the second
TodayAt(d, t) == [date |-> d, time |-> t]
DateTimeToday(now) ==
    DateTime(now.date, now.time.hour, now.time.minute, now.time.second,
             now.time.microsecond, Naive)

\* A facade method that has no date arguments: get_personal_info
FacadeUndated(E) ==
    [pc |-> "request", fmt |-> [called |-> FALSE],
     slug |-> <<E.slug>>, params |-> EmptyDict, outcome |-> Pending]

\* get_heart_rate after start, end = self._format_datetimes(...), r being
\* what that call returned or raised
FacadeDatetimes(E, r) ==
    IF ~r.ok
    THEN [pc |-> "done", fmt |-> [called |-> TRUE, res |-> r],
          slug |-> <<>>, params |-> EmptyDict, outcome |-> Raised(r.type)]
    ELSE [pc |-> "page", fmt |-> [called |-> TRUE, res |-> r],
          slug |-> <<E.slug>>,
          params |-> DateTimeParams(r.val[1], r.val[2]),
          outcome |-> Pending]

\* A date-ranged facade method after start, end = self._format_dates(...),
\* r being what that call returned or raised: `if document_id:` and the
\* helper called on either side of it
FacadeDates(E, r, document_id) ==
    IF ~r.ok
    THEN [pc |-> "done", fmt |-> [called |-> TRUE, res |-> r],
          slug |-> <<>>, params |-> EmptyDict, outcome |-> Raised(r.type)]
    ELSE IF TruthyStr(document_id)
    THEN [pc |-> IF E.doc = "single" THEN "request" ELSE "page",
          fmt |-> [called |-> TRUE, res |-> r],
          slug |-> <<E.slug, document_id.s>>,
          params |-> EmptyDict, outcome |-> Pending]
    ELSE [pc |-> "page", fmt |-> [called |-> TRUE, res |-> r],
          slug |-> <<E.slug>>,
          params |-> DateParams(r.val[1], r.val[2]),
          outcome |-> Pending]

\* A facade method that builds the date params before it looks at
\* document_id and passes them on either path.
FacadeDatedDocument(m, start_date, end_date, document_id, now) ==
    LET E == Endpoint[m]
    IN IF E.dates = "none"
       THEN [pc |-> "request", fmt |-> [called |-> FALSE],
             slug |-> <<E.slug>>, params |-> EmptyDict, outcome |-> Pending]
       ELSE IF E.dates = "datetimes"
       THEN LET r == FormatDatetimes(start_date, end_date, DateTimeToday(now))
            IN IF ~r.ok
               THEN [pc |-> "done", fmt |-> [called |-> TRUE, res |-> r],
                     slug |-> <<>>, params |-> EmptyDict,
                     outcome |-> Raised(r.type)]
               ELSE [pc |-> "page", fmt |-> [called |-> TRUE, res |-> r],
                     slug |-> <<E.slug>>,
                     params |-> DateTimeParams(r.val[1], r.val[2]),
                     outcome |-> Pending]
       ELSE LET r == FormatDates(start_date, end_date, now.date)
            IN IF ~r.ok
               THEN [pc |-> "done", fmt |-> [called |-> TRUE, res |-> r],
                     slug |-> <<>>, params |-> EmptyDict,
                     outcome |-> Raised(r.type)]
               ELSE IF TruthyStr(document_id)
               THEN [pc |-> IF E.doc = "single" THEN "request" ELSE "page",
                     fmt |-> [called |-> TRUE, res |-> r],
                     slug |-> <<E.slug, document_id.s>>,
                     params |-> DateParams(r.val[1], r.val[2]),
                     outcome |-> Pending]
               ELSE [pc |-> "page", fmt |-> [called |-> TRUE, res |-> r],
                     slug |-> <<E.slug>>,
                     params |-> DateParams(r.val[1], r.val[2]),
                     outcome |-> Pending]

\* params = kwargs.pop("params", {}) with a dict kept from call to call
\* and updated in place of a new one
PopParamsKept(passed, old) ==
    [k \in (DOMAIN old) \cup (DOMAIN passed) |->
        IF k \in DOMAIN passed THEN passed[k] ELSE old[k]]

\* params = kwargs.pop("params", {}): the dict the facade method passed,
\* or a new empty one (the facade passes EmptyDict for that case); the dict
\* of a previous call, old, plays no part
PopParams(passed, old) == passed

\* The body of a facade method up to its first request: which helper it
\* calls ("request" = _make_request, "page" = _make_paginated_request,
\* "done" = it raised before calling either), with which url_slug and params.
Facade(m, start_date, end_date, document_id, now) ==
    IF Endpoint[m].dates = "none"
    THEN FacadeUndated(Endpoint[m])
    ELSE IF Endpoint[m].dates = "datetimes"
    THEN FacadeDatetimes(Endpoint[m],
                         FormatDatetimes(start_date, end_date, DateTimeToday(now)))
    ELSE FacadeDates(Endpoint[m],
                     FormatDates(start_date, end_date, now.date), document_id)

----------------------------------------------------------------------------
(* Bounds and input sets *)

MaxCalls == 2   \* facade calls made on one client
MaxPages == 3   \* pages the upstream serves to one call
MaxData == 3    \* records the upstream holds for one query
MaxCloses == 2  \* explicit close() calls on one client

Records == {"a", "b"}

L_2024_03_01 == <<"2", "0", "2", "4", "-", "0", "3", "-", "0", "1">>
L_2024_02_29 == <<"2", "0", "2", "4", "-", "0", "2", "-", "2", "9">>
L_2024_01_01 == <<"2", "0", "2", "4", "-", "0", "1", "-", "0", "1">>
L_2023_12_31 == <<"2", "0", "2", "3", "-", "1", "2", "-", "3", "1">>
L_2024_03_02 == <<"2", "0", "2", "4", "-", "0", "3", "-", "0", "2">>
L_0001_01_01 == <<"0", "0", "0", "1", "-", "0", "1", "-", "0", "1">>
L_20240229 == <<"2", "0", "2", "4", "0", "2", "2", "9">>
L_2023_02_29 == <<"2", "0", "2", "3", "-", "0", "2", "-", "2", "9">>
L_2024_13_01 == <<"2", "0", "2", "4", "-", "1", "3", "-", "0", "1">>
L_2024_3_1 == <<"2", "0", "2", "4", "-", "3", "-", "1">>
L_yesterday == <<"y", "e", "s", "t", "e", "r", "d", "a", "y">>
L_2024_02_28 == <<"2", "0", "2", "4", "-", "0", "2", "-", "2", "8">>
L_2023_12_30 == <<"2", "0", "2", "3", "-", "1", "2", "-", "3", "0">>

L_2024_02_29T12_30_00 ==
    <<"2", "0", "2", "4", "-", "0", "2", "-", "2", "9", "T",
      "1", "2", ":", "3", "0", ":", "0", "0">>
L_2024_03_01T12_30_00_p0200 ==
    <<"2", "0", "2", "4", "-", "0", "3", "-", "0", "1", "T",
      "1", "2", ":", "3", "0", ":", "0", "0", "+", "0", "2", ":", "0", "0">>
L_2024_03_01T24_00_00 ==
    <<"2", "0", "2", "4", "-", "0", "3", "-", "0", "1", "T",
      "2", "4", ":", "0", "0", ":", "0", "0">>

\* readings of the local clock
HalfPastNoon == [hour |-> 12, minute |-> 30, second |-> 0, microsecond |-> 250000]
NoCall == [method |-> "none", start_date |-> None, end_date |-> None,
           document_id |-> None]

\* the local variables of a facade call that has not started
IdleFrame ==
    [pc |-> "idle", call |-> NoCall, fmt |-> [called |-> FALSE], helper |-> "",
     params |-> EmptyDict, response_data |-> <<>>, inflight |-> <<>>,
     requests |-> <<>>, served |-> <<>>, outcome |-> Pending]

\* the records of a response body, none when it has no data array
DataOf(resp) ==
    IF resp.kind = "http" /\ resp.body.json /\ "data" \in DOMAIN resp.body.val
    THEN resp.body.val.data
    ELSE <<>>

\* a page with a truthy token asks for another request
Continues(resp) ==
    /\ MakeRequest(resp).ok
    /\ "data" \in DOMAIN MakeRequest(resp).val
    /\ "next_token" \in DOMAIN MakeRequest(resp).val
    /\ JTruthy(MakeRequest(resp).val.next_token)

----------------------------------------------------------------------------
(* The client *)

\* OuraClient.__init__
InitWith(Todays, Clocks, Tokens) ==
    /\ token \in Tokens
    /\ session = [headers |-> [Authorization |-> <<"Bearer", token>>],
                  closes |-> 0]
    /\ scope = [at |-> "none", raised |-> "none"]
    /\ today \in Todays
    /\ clock \in Clocks
    /\ pc = "idle"
    /\ call = NoCall
    /\ fmt = [called |-> FALSE]
    /\ helper = ""
    /\ params = EmptyDict
    /\ response_data = <<>>
    /\ inflight = <<>>
    /\ requests = <<>>
    /\ served = <<>>
    /\ outcome = Pending
    /\ previous = [finished |-> FALSE]
    /\ other = IdleFrame
    /\ ncalls = 0

\* The client's state once a facade method has run up to its first
\* session.request, f being what Facade gives for the call
Begin(m, start_date, end_date, document_id, f, prm) ==
    /\ pc' = f.pc
    /\ fmt' = f.fmt
    /\ helper' = IF f.pc = "request" THEN "_make_request"
                 ELSE IF f.pc = "page" THEN "_make_paginated_request"
                 ELSE ""
    /\ params' = prm
    /\ outcome' = f.outcome
    /\ inflight' = IF f.pc = "done" THEN <<>>
                   ELSE <<Request("GET", f.slug, prm, session.headers)>>
    /\ requests' = inflight'
    /\ call' = [method |-> m, start_date |-> start_date, end_date |-> end_date,
                document_id |-> document_id]
    /\ response_data' = <<>>
    /\ served' = <<>>
    /\ ncalls' = ncalls + 1
    /\ UNCHANGED <<token, other, session, scope, today, clock, previous>>

\* the params dict of the call's first request: the loop's
\* kwargs.pop("params", {}) on the paginated path, the facade's own dict or
\* none on the other
FirstParams(f, old) ==
    IF f.pc = "page" THEN PopParams(f.params, old) ELSE f.params

\* the call as far as Facade describes it
BeginFacade(m, start_date, end_date, document_id, f) ==
    Begin(m, start_date, end_date, document_id, f, FirstParams(f, params))

\* A facade method is called with the given arguments and runs up to its
\* first session.request (or to the exception _format_dates or
\* _format_datetimes raises).
Invoke(m, start_date, end_date, document_id) ==
    /\ pc = "idle"
    /\ ncalls < MaxCalls
    /\ BeginFacade(m, start_date, end_date, document_id,
                   Facade(m, start_date, end_date, document_id,
                          TodayAt(today, clock)))

\* session.request returns or raises inside a _make_request that a facade
\* method called directly; the method returns the decoded body.
ReceiveSingle(resp) ==
    /\ pc = "request"
    /\ inflight # <<>>
    /\ LET r == MakeRequest(resp)
       IN outcome' = IF r.ok THEN Returned(PyDict(r.val)) ELSE Raised(r.type)
    /\ pc' = "done"
    /\ inflight' = <<>>
    /\ served' = Append(served, resp)
    /\ UNCHANGED <<token, other, session, scope, today, clock, call, fmt, helper, params,
                   response_data, requests, previous, ncalls>>

\* a next request whose params are a new dict with the token alone
NextRequestTokenOnly(prev, prm, headers) ==
    Request(prev.method, Tail(prev.url),
            [k \in (DOMAIN prm) \cap {"next_token"} |-> prm[k]], headers)

\* The _make_request call of the loop's next pass: method, url_slug and
\* **kwargs are those of the pass before, params is the same dict, now
\* holding the token.
NextRequest(prev, prm, headers) ==
    Request(prev.method, Tail(prev.url), prm, headers)

\* The pagination loop with a retry: when the fetch of a page fails, the
\* same request is sent once more.
ReceivePageRetry(resp) ==
    /\ pc = "page"
    /\ inflight # <<>>
    /\ Len(served) < MaxPages
    /\ Len(requests) >= MaxPages => ~Continues(resp)
    /\ Len(response_data) + Len(DataOf(resp)) <= MaxData
    /\ LET st == PaginatedStep(params, response_data, MakeRequest(resp))
           retry == ~MakeRequest(resp).ok /\ Len(requests) < MaxPages
           req == NextRequest(inflight[1], st.params, session.headers)
       IN /\ params' = st.params
          /\ response_data' = st.response_data
          /\ outcome' = IF retry THEN Pending ELSE st.outcome
          /\ pc' = IF st.done /\ ~retry THEN "done" ELSE "page"
          /\ inflight' = IF st.done /\ ~retry THEN <<>> ELSE <<req>>
          /\ requests' = IF st.done /\ ~retry THEN requests
                         ELSE Append(requests, req)
    /\ served' = Append(served, resp)
    /\ UNCHANGED <<token, other, session, scope, today, clock, call, fmt, helper,
                   previous, ncalls>>

\* session.request returns or raises inside the _make_request call of the
\* pagination loop; the loop runs up to its next session.request or its end.
ReceivePage(resp) ==
    /\ pc = "page"
    /\ inflight # <<>>
    /\ Len(served) < MaxPages
    /\ Len(requests) >= MaxPages => ~Continues(resp)
    /\ Len(response_data) + Len(DataOf(resp)) <= MaxData
    /\ LET st == PaginatedStep(params, response_data, MakeRequest(resp))
           req == NextRequest(inflight[1], st.params, session.headers)
       IN /\ params' = st.params
          /\ response_data' = st.response_data
          /\ outcome' = st.outcome
          /\ pc' = IF st.done THEN "done" ELSE "page"
          /\ inflight' = IF st.done THEN <<>> ELSE <<req>>
          /\ requests' = IF st.done THEN requests ELSE Append(requests, req)
    /\ served' = Append(served, resp)
    /\ UNCHANGED <<token, other, session, scope, today, clock, call, fmt, helper, previous,
                   ncalls>>

\* The facade method's frame is gone and its caller has taken the outcome:
\* the client is ready for the next call.  The params dict stays as the
\* loop left it, unreachable; `previous' notes whether the call sent more
\* than one request and whether it raised.
Return ==
    /\ pc = "done"
    /\ pc' = "idle"
    /\ call' = NoCall
    /\ fmt' = [called |-> FALSE]
    /\ helper' = ""
    /\ response_data' = <<>>
    /\ inflight' = <<>>
    /\ requests' = <<>>
    /\ served' = <<>>
    /\ outcome' = Pending
    /\ previous' = [finished |-> TRUE, paged |-> Len(requests) >= 2,
                    raised |-> outcome.kind = "raise"]
    /\ UNCHANGED <<token, other, session, scope, today, clock, params, ncalls>>

\* the frame of the call the running thread is in
Frame ==
    [pc |-> pc, call |-> call, fmt |-> fmt, helper |-> helper,
     params |-> params, response_data |-> response_data,
     inflight |-> inflight, requests |-> requests, served |-> served,
     outcome |-> outcome]

\* Two threads whose params dict and accumulator are one object of the
\* client: the thread that runs on finds what the other one left.
SwitchShared ==
    /\ pc' = other.pc
    /\ call' = other.call
    /\ fmt' = other.fmt
    /\ helper' = other.helper
    /\ inflight' = other.inflight
    /\ requests' = other.requests
    /\ served' = other.served
    /\ outcome' = other.outcome
    /\ other' = [Frame EXCEPT !.params = other.params,
                              !.response_data = other.response_data]
    /\ UNCHANGED <<token, session, scope, today, clock, params,
                   response_data, previous, ncalls>>

\* The interpreter hands the processor to the other thread that uses the
\* client: that thread's call goes on with its own frame, the locals of
\* its facade method and of _make_paginated_request (params,
\* response_data, response); the client and its session are the same.
Switch ==
    /\ pc' = other.pc
    /\ call' = other.call
    /\ fmt' = other.fmt
    /\ helper' = other.helper
    /\ params' = other.params
    /\ response_data' = other.response_data
    /\ inflight' = other.inflight
    /\ requests' = other.requests
    /\ served' = other.served
    /\ outcome' = other.outcome
    /\ other' = Frame
    /\ UNCHANGED <<token, session, scope, today, clock, previous, ncalls>>

\* Session.close() that also forgets the session's headers
SessionCloseForgets(s) == [headers |-> EmptyDict, closes |-> s.closes + 1]

\* Session.close(): the connections are released; the headers stay, and the
\* session still sends requests afterwards
SessionClose(s) == [s EXCEPT !.closes = @ + 1]

\* OuraClient.close()
Close ==
    /\ pc \in {"idle", "done"}
    /\ session.closes < MaxCloses
    /\ session' = SessionClose(session)
    /\ UNCHANGED <<token, other, scope, today, clock, pc, call, fmt, helper, params,
                   response_data, inflight, requests, served, outcome,
                   previous, ncalls>>

\* OuraClient.__enter__: `with client:` or `with OuraClient(pat) as client:`
Enter ==
    /\ scope.at = "none"
    /\ pc = "idle"
    /\ scope' = [at |-> "with", raised |-> "none"]
    /\ UNCHANGED <<token, other, session, today, clock, pc, call, fmt, helper, params,
                   response_data, inflight, requests, served, outcome,
                   previous, ncalls>>

\* an __exit__ that returns True: the exception stops at the with-block
ExitSuppresses ==
    /\ scope.at = "with"
    /\ pc \in {"idle", "done"}
    /\ session' = SessionClose(session)
    /\ scope' = [at |-> "exited", raised |-> "none"]
    /\ UNCHANGED <<token, other, today, clock, pc, call, fmt, helper, params,
                   response_data, inflight, requests, served, outcome,
                   previous, ncalls>>

\* OuraClient.__exit__: the with-block is left, at its end or by the
\* exception a facade call in it has just raised; __exit__ closes the
\* session and returns None, so the exception goes on to the code around
\* the block.
Exit ==
    /\ scope.at = "with"
    /\ pc \in {"idle", "done"}
    /\ session' = SessionClose(session)
    /\ scope' = [at |-> "exited",
                 raised |-> IF pc = "done" /\ outcome.kind = "raise"
                            THEN outcome.error ELSE "none"]
    /\ UNCHANGED <<token, other, today, clock, pc, call, fmt, helper, params,
                   response_data, inflight, requests, served, outcome,
                   previous, ncalls>>

----------------------------------------------------------------------------
(* Inputs *)

Tokens == {"abc", "pat"}

Todays == {Date(2024, 3, 1), Date(2024, 1, 1)}

FewDateTimeArgs ==
    {None, Str(<<>>), Str(L_2024_02_29), Str(L_2024_02_29T12_30_00), Str(L_2024_03_02),
     Str(L_2024_03_01T12_30_00_p0200), Str(L_2024_03_01T24_00_00)}

\* arguments of a call of method m: get_personal_info takes none,
\* get_heart_rate two datetimes and no document_id
ArgsOf(m, DateArgs, DocArgs) ==
    IF Endpoint[m].dates = "none"
    THEN {<<None, None, None>>}
    ELSE IF Endpoint[m].dates = "datetimes"
    THEN FewDateTimeArgs \X FewDateTimeArgs \X {None}
    ELSE DateArgs \X DateArgs \X DocArgs

DataArrays == UNION {[1..k -> Records] : k \in 0..MaxData}

JTokens == {JNull, JStr(""), JStr("t1"), JStr("t2")}

PageBodies ==
    {Page(d, t) : d \in DataArrays, t \in JTokens}
        \cup {PageNoToken(d) : d \in DataArrays}

DocArgs == {None, Str(""), Str("doc1")}

\* the facade as a whole: one call on a new client, every method, a few
\* dates, a small upstream
FewDateArgs == {None, Str(<<>>), Str(L_2024_02_29), Str(L_2024_03_02),
                Str(L_2024_13_01)}

FewResponses ==
    { TransportFailure,
      HttpResponse(404, NotJson),
      HttpResponse(200, NotJson),
      HttpResponse(200, Json(Document("doc1"))),
      HttpResponse(200, Json(Page(<<"a">>, JStr("t1")))),
      HttpResponse(200, Json(Page(<<"b">>, JNull))) }

Init == InitWith(Todays, {HalfPastNoon, Midnight}, Tokens)

Next ==
    \/ /\ ncalls = 0
       /\ \E m \in AllMethods :
            \E a \in ArgsOf(m, FewDateArgs, DocArgs) :
                Invoke(m, a[1], a[2], a[3])
    \/ \E resp \in FewResponses : ReceiveSingle(resp)
    \/ \E resp \in FewResponses : ReceivePage(resp)
    \/ Return

Spec == Init /\ [][Next]_vars

\* the date normaliser: one call of one method, many date literals, a
\* minimal upstream
ManyDateArgs ==
    {None, Str(<<>>), Str(L_2024_03_01), Str(L_2024_02_29), Str(L_2024_01_01),
     Str(L_2023_12_31), Str(L_2024_03_02), Str(L_0001_01_01), Str(L_20240229),
     Str(L_2023_02_29), Str(L_2024_13_01), Str(L_2024_3_1), Str(L_yesterday)}

LastPageOnly ==
    { HttpResponse(200, Json(Page(<<"a">>, JNull))),
      HttpResponse(200, Json(Document("doc1"))) }

InitDates == InitWith(Todays, {HalfPastNoon}, {"abc"})

NextDates ==
    \/ /\ ncalls = 0
       /\ \E a \in ManyDateArgs \X ManyDateArgs \X {None, Str("doc1")} :
            Invoke("get_daily_sleep", a[1], a[2], a[3])
    \/ \E resp \in LastPageOnly : ReceiveSingle(resp)
    \/ \E resp \in LastPageOnly : ReceivePage(resp)
    \/ Return

SpecDates == InitDates /\ [][NextDates]_vars

\* the pagination loop: one call without date arguments, every page the
\* upstream can serve
ManyResponses ==
    { TransportFailure,
      HttpResponse(404, NotJson),
      HttpResponse(200, NotJson),
      HttpResponse(200, Json(Document("doc1"))),
      HttpResponse(304, Json(Page(<<"b">>, JNull))),
      HttpResponse(404, Json(Page(<<"a">>, JStr("t1")))) }
        \cup {HttpResponse(200, Json(b)) : b \in PageBodies}

InitPaging == InitWith({Date(2024, 3, 1)}, {HalfPastNoon}, {"abc"})

NextPaging ==
    \/ /\ ncalls = 0
       /\ \E m \in {"get_daily_sleep", "get_enhanced_tag"} :
            \E doc \in {None, Str("doc1")} : Invoke(m, None, None, doc)
    \/ \E resp \in ManyResponses : ReceiveSingle(resp)
    \/ \E resp \in ManyResponses : ReceivePage(resp)
    \/ Return

SpecPaging == InitPaging /\ [][NextPaging]_vars

\* the pagination loop against an upstream that answers every request with
\* a well-formed 200 response and, by the MaxPages-th page, stops handing
\* out tokens.  session.request blocks for at most its timeout, so a
\* request in flight is answered; the client itself runs on.
LivePages ==
    {HttpResponse(200, Json(b)) :
        b \in {pb \in PageBodies : Len(pb.data) <= 1}}

ServePage == \E resp \in LivePages : ReceivePage(resp)

NextLive ==
    \/ ncalls = 0 /\ Invoke("get_daily_sleep", None, None, None)
    \/ ServePage
    \/ Return

SpecLive == InitPaging /\ [][NextLive]_vars /\ WF_vars(ServePage)

\* two paginated calls on one client in two threads, their requests
\* interleaved in any order
ThreadPages ==
    {TransportFailure}
        \cup {HttpResponse(200, Json(Page(<<d>>, t))) :
                 d \in Records, t \in {JNull, JStr("t1"), JStr("t2")}}

\* the first thread asks for the default range, the second for another one
ThreadCalls == <<<<None, None>>, <<Str(L_2024_02_28), Str(L_2024_02_29)>>>>

NextThreads ==
    \/ /\ ncalls < 2
       /\ \E a \in {ThreadCalls[ncalls + 1]} :
            Invoke("get_daily_sleep", a[1], a[2], None)
    \/ \E resp \in ThreadPages : ReceivePage(resp)
    \/ Switch

SpecThreads == InitPaging /\ [][NextThreads]_vars

\* the life of a client: several calls one after the other, inside or
\* outside a with-block, before or after the session is closed
CallArgs ==
    {<<"get_personal_info", None, None, None>>,
     <<"get_daily_sleep", None, None, None>>,
     <<"get_daily_sleep", Str(L_2024_02_29), None, None>>,
     <<"get_daily_sleep", Str(L_2024_03_02), None, None>>,
     <<"get_daily_sleep", None, None, Str("doc1")>>,
     <<"get_enhanced_tag", None, None, None>>,
     <<"get_enhanced_tag", None, None, Str("doc1")>>}

InitCalls == InitWith({Date(2024, 3, 1)}, {HalfPastNoon}, Tokens)

NextCalls ==
    \/ \E a \in CallArgs : Invoke(a[1], a[2], a[3], a[4])
    \/ \E resp \in FewResponses : ReceiveSingle(resp)
    \/ \E resp \in FewResponses : ReceivePage(resp)
    \/ Return
    \/ Enter
    \/ Exit
    \/ Close

SpecCalls == InitCalls /\ [][NextCalls]_vars

----------------------------------------------------------------------------
(* The v1 client (src/oura_ring_v1.py, class OuraClient).  Its facade      *)
(* methods take start_date and end_date only, and each calls _make_request *)
(* directly.  pc = "request_v1" while that one request is in flight.       *)
(* The client is a context manager like the v2 one: close, __enter__ and   *)
(* __exit__ act on the same session and scope.                             *)

\* one row per get_* method of the v1 client
EndpointV1 ==
    [ get_personal_info       |-> Row("v1/userinfo", "none", "none"),
      get_daily_sleep         |-> Row("v1/sleep", "dates", "none"),
      get_daily_activity      |-> Row("v1/activity", "dates", "none"),
      get_daily_readiness     |-> Row("v1/readiness", "dates", "none"),
      get_daily_ideal_bedtime |-> Row("v1/bedtime", "dates", "none") ]

MethodsV1 == DOMAIN EndpointV1

\* the v1 client's own _format_dates(start_date, end_date), with
\* date.today() = now
FormatDatesV1(start_date, end_date, now) ==
    LET end == IF Truthy(end_date) THEN FromIsoFormat(end_date.s) ELSE Ok(now)
    IN IF ~end.ok THEN end
       ELSE LET start == IF Truthy(start_date) THEN FromIsoFormat(start_date.s)
                         ELSE MinusOneDay(end.val)
            IN IF ~start.ok THEN start
               ELSE IF DateGT(start.val, end.val)
               THEN ValueError("Start date greater than end date")
               ELSE Ok(<<IsoFormat(start.val), IsoFormat(end.val)>>)

\* the v1 client's own _make_request once session.request has its answer:
\* raise_for_status(), then response.json()
MakeRequestV1(resp) ==
    IF resp.kind = "error" THEN [ok |-> FALSE, type |-> "ConnectionError"]
    ELSE IF RaisesForStatus(resp.status) THEN [ok |-> FALSE, type |-> "HTTPError"]
    ELSE IF ~resp.body.json THEN [ok |-> FALSE, type |-> "JSONDecodeError"]
    ELSE Ok(resp.body.val)

\* The body of a v1 facade method up to its request: "request_v1" with the
\* url_slug and params it passes to _make_request, or "done" when
\* _format_dates raised.  get_personal_info passes no params.
FacadeV1(m, start_date, end_date, now) ==
    LET E == EndpointV1[m]
    IN IF E.dates = "none"
       THEN [pc |-> "request_v1", fmt |-> [called |-> FALSE],
             slug |-> <<E.slug>>, params |-> EmptyDict, outcome |-> Pending]
       ELSE LET r == FormatDatesV1(start_date, end_date, now)
            IN IF ~r.ok
               THEN [pc |-> "done", fmt |-> [called |-> TRUE, res |-> r],
                     slug |-> <<>>, params |-> EmptyDict,
                     outcome |-> Raised(r.type)]
               ELSE [pc |-> "request_v1", fmt |-> [called |-> TRUE, res |-> r],
                     slug |-> <<E.slug>>,
                     params |-> DateParams(r.val[1], r.val[2]),
                     outcome |-> Pending]

\* A v1 facade method is called and runs up to its session.request (or to
\* the exception _format_dates raises).
InvokeV1(m, start_date, end_date) ==
    /\ pc = "idle"
    /\ ncalls < MaxCalls
    /\ LET f == FacadeV1(m, start_date, end_date, today)
           req == Request("GET", f.slug, f.params, session.headers)
       IN /\ pc' = f.pc
          /\ fmt' = f.fmt
          /\ helper' = IF f.pc = "request_v1" THEN "_make_request" ELSE ""
          /\ params' = f.params
          /\ outcome' = f.outcome
          /\ inflight' = IF f.pc = "done" THEN <<>> ELSE <<req>>
          /\ requests' = IF f.pc = "done" THEN <<>> ELSE <<req>>
    /\ call' = [method |-> m, start_date |-> start_date, end_date |-> end_date,
                document_id |-> None]
    /\ response_data' = <<>>
    /\ served' = <<>>
    /\ ncalls' = ncalls + 1
    /\ UNCHANGED <<token, other, session, scope, today, clock, previous>>

\* a v1 method that goes through a pagination loop: a body with a truthy
\* next_token is answered by a further request carrying the token, and
\* the data arrays are what the method returns
ReceiveV1Paged(resp) ==
    /\ pc = "request_v1"
    /\ inflight # <<>>
    /\ Len(response_data) + Len(DataOf(resp)) <= MaxData
    /\ LET st == PaginatedStep(params, response_data, MakeRequestV1(resp))
           more == ~st.done /\ Len(requests) < MaxPages
           req == NextRequest(inflight[1], st.params, session.headers)
       IN /\ params' = st.params
          /\ response_data' = st.response_data
          /\ outcome' = IF st.done THEN st.outcome
                         ELSE IF more THEN Pending
                         ELSE Returned(PyList(st.response_data))
          /\ pc' = IF more THEN "request_v1" ELSE "done"
          /\ inflight' = IF more THEN <<req>> ELSE <<>>
          /\ requests' = IF more THEN Append(requests, req) ELSE requests
    /\ served' = Append(served, resp)
    /\ UNCHANGED <<token, other, session, scope, today, clock, call, fmt, helper,
                   previous, ncalls>>

\* session.request returns or raises inside the _make_request that the v1
\* facade method called; the method returns what _make_request returns,
\* the decoded body.
ReceiveV1(resp) ==
    /\ pc = "request_v1"
    /\ inflight # <<>>
    /\ LET r == MakeRequestV1(resp)
       IN outcome' = IF r.ok THEN Returned(PyDict(r.val)) ELSE Raised(r.type)
    /\ pc' = "done"
    /\ inflight' = <<>>
    /\ served' = Append(served, resp)
    /\ UNCHANGED <<token, other, session, scope, today, clock, call, fmt, helper, params,
                   response_data, requests, previous, ncalls>>

\* the v1 client's close(): self.session.close()
CloseV1 ==
    /\ pc \in {"idle", "done"}
    /\ session.closes < MaxCloses
    /\ session' = SessionClose(session)
    /\ UNCHANGED <<token, other, scope, today, clock, pc, call, fmt, helper, params,
                   response_data, inflight, requests, served, outcome,
                   previous, ncalls>>

\* the v1 client's __enter__: it returns self
EnterV1 ==
    /\ scope.at = "none"
    /\ pc = "idle"
    /\ scope' = [at |-> "with", raised |-> "none"]
    /\ UNCHANGED <<token, other, session, today, clock, pc, call, fmt, helper, params,
                   response_data, inflight, requests, served, outcome,
                   previous, ncalls>>

\* the v1 client's __exit__: self.close(), and None returned, so that an
\* exception raised in the with-block goes on
ExitV1 ==
    /\ scope.at = "with"
    /\ pc \in {"idle", "done"}
    /\ session' = SessionClose(session)
    /\ scope' = [at |-> "exited",
                 raised |-> IF pc = "done" /\ outcome.kind = "raise"
                            THEN outcome.error ELSE "none"]
    /\ UNCHANGED <<token, other, today, clock, pc, call, fmt, helper, params,
                   response_data, inflight, requests, served, outcome,
                   previous, ncalls>>

DateArgsV1 ==
    {None, Str(<<>>), Str(L_2024_03_01), Str(L_2024_02_29), Str(L_2024_03_02),
     Str(L_0001_01_01), Str(L_20240229), Str(L_2024_13_01), Str(L_yesterday)}

ArgsOfV1(m) ==
    IF EndpointV1[m].dates = "none" THEN {<<None, None>>}
    ELSE DateArgsV1 \X DateArgsV1

ResponsesV1 ==
    FewResponses \cup
        { HttpResponse(200, Json(PageNoToken(<<"a">>))),
          HttpResponse(304, Json(Document("doc1"))) }

InitV1 == InitWith(Todays, {HalfPastNoon}, Tokens)

NextV1 ==
    \/ /\ ncalls = 0
       /\ \E m \in MethodsV1 :
            \E a \in ArgsOfV1(m) : InvokeV1(m, a[1], a[2])
    \/ \E resp \in ResponsesV1 : ReceiveV1(resp)
    \/ Return
    \/ EnterV1
    \/ ExitV1
    \/ CloseV1

SpecV1 == InitV1 /\ [][NextV1]_vars

----------------------------------------------------------------------------
(* Properties of the pagination loop, stated on the wire logs: `served' is *)
(* what the upstream answered, `requests' is what the client sent.         *)

InLoop == helper = "_make_paginated_request"

\* a 2xx response whose body is {"data": [...], "next_token": ...}
IsPage(resp) ==
    /\ resp.kind = "http"
    /\ resp.status >= 200 /\ resp.status <= 299
    /\ resp.body.json
    /\ DOMAIN resp.body.val = {"data", "next_token"}

TokenOf(resp) == resp.body.val.next_token

EmptyToken(tok) == tok = JNull \/ tok = JStr("")

\* every response is a page and exactly the last has a null/empty token
PageRun(resps) ==
    /\ resps # <<>>
    /\ \A i \in 1..Len(resps) : IsPage(resps[i])
    /\ \A i \in 1..Len(resps) : EmptyToken(TokenOf(resps[i])) <=> i = Len(resps)

RECURSIVE ConcatData(_)
ConcatData(resps) ==
    IF resps = <<>> THEN <<>>
    ELSE resps[1].body.val.data \o ConcatData(Tail(resps))

\* C1: when the upstream has served a run of pages of which only the last
\* has a null or empty next_token, _make_paginated_request has returned the
\* concatenation of the pages' data arrays in the order the pages arrived,
\* nothing dropped, duplicated, deduplicated or reordered.
C1_ReturnsConcatenation ==
    (InLoop /\ pc = "done" /\ PageRun(served))
        => outcome = Returned(PyList(ConcatData(served)))

\* three pages arrived, a record occurs twice in the result and the result
\* is not sorted
C1_Witness ==
    /\ InLoop /\ pc = "done" /\ PageRun(served)
    /\ Len(served) >= 3
    /\ outcome.kind = "return"
    /\ \E i, j \in 1..Len(outcome.value.items) :
           i < j /\ outcome.value.items[i] = "b" /\ outcome.value.items[j] = "a"
    /\ \E i, j \in 1..Len(outcome.value.items) :
           i < j /\ outcome.value.items[i] = outcome.value.items[j]

\* C2: the loop sends one request per page served; the first request has
\* no next_token, and request k+1 carries the token of page k, the page
\* served just before it, never an older one.
C2_TokensChain ==
    InLoop =>
        /\ requests # <<>>
        /\ "next_token" \notin DOMAIN requests[1].params
        /\ Len(requests) - Len(served) \in {0, 1}
        /\ \A k \in 1..(Len(requests) - 1) :
               /\ served[k].kind = "http" /\ served[k].body.json
               /\ "next_token" \in DOMAIN served[k].body.val
               /\ "next_token" \in DOMAIN requests[k + 1].params
               /\ requests[k + 1].params["next_token"] = TokenOf(served[k]).v
        /\ (pc = "done" /\ PageRun(served)) => Len(requests) = Len(served)

\* three pages with two different tokens, three requests
C2_Witness ==
    /\ InLoop /\ pc = "done" /\ PageRun(served)
    /\ Len(served) >= 3 /\ Len(requests) = Len(served)
    /\ TokenOf(served[1]) # TokenOf(served[2])
    /\ requests[3].params["next_token"] = TokenOf(served[2]).v

\* what makes a fetch fail in _make_request: the transport raises, the
\* status is one raise_for_status rejects, or the body is not JSON
FetchFailed(resp) ==
    \/ resp.kind = "error"
    \/ resp.kind = "http" /\ resp.status >= 400 /\ resp.status <= 599
    \/ resp.kind = "http" /\ ~resp.body.json

ErrorOf(resp) ==
    IF resp.kind = "error" THEN "ConnectionError"
    ELSE IF resp.status >= 400 THEN "HTTPError"
    ELSE "JSONDecodeError"

\* a status in 200..299
Is2xx(resp) == resp.kind = "http" /\ resp.status >= 200 /\ resp.status <= 299

\* a fetch that failed: the transport failed, the status is not a success
\* status, or the body is not valid JSON
FailedFetch(resp) ==
    \/ resp.kind = "error"
    \/ resp.kind = "http" /\ ~Is2xx(resp)
    \/ resp.kind = "http" /\ ~resp.body.json

\* C3: when the fetch of a page fails, by a transport failure, a status
\* that is not a success status or a body that is not JSON, the paginated
\* call ends there and raises: its outcome carries no list, the records of
\* the pages before are not observable; and a call that returned a list
\* had no failed fetch.
C3_NoPartialResult ==
    InLoop =>
        /\ \A k \in 1..Len(served) : FailedFetch(served[k]) =>
               /\ k = Len(served)
               /\ pc = "done"
               /\ outcome.kind = "raise"
        /\ outcome.kind = "return" =>
               \A k \in 1..Len(served) : ~FailedFetch(served[k])

----------------------------------------------------------------------------
(* Properties of _format_dates, stated against a calendar written out by   *)
(* hand: each date literal used as an input or expected as an output, the  *)
(* date it denotes and that date's proleptic Gregorian ordinal.            *)

Entry(text, y, m, d, ord) == [text |-> text, date |-> Date(y, m, d), ord |-> ord]

Calendar ==
    { Entry(L_0001_01_01, 1, 1, 1, 1),
      Entry(L_2023_12_30, 2023, 12, 30, 738884),
      Entry(L_2023_12_31, 2023, 12, 31, 738885),
      Entry(L_2024_01_01, 2024, 1, 1, 738886),
      Entry(L_2024_02_28, 2024, 2, 28, 738944),
      Entry(L_2024_02_29, 2024, 2, 29, 738945),
      Entry(L_20240229, 2024, 2, 29, 738945),
      Entry(L_2024_03_01, 2024, 3, 1, 738946),
      Entry(L_2024_03_02, 2024, 3, 2, 738947) }

\* the literal denotes a date
Known(text) == \E e \in Calendar : e.text = text
DateOf(text) == (CHOOSE e \in Calendar : e.text = text).date
OrdOf(text) == (CHOOSE e \in Calendar : e.text = text).ord
OrdOfDate(dt) == (CHOOSE e \in Calendar : e.date = dt).ord

\* YYYY-MM-DD
Canonical(text) == Known(text) /\ Len(text) = 10 /\ text[5] = "-" /\ text[8] = "-"

\* the argument is a literal that denotes a date
Valid(arg) == arg.some /\ arg.s # <<>> /\ Known(arg.s)

\* C4: for valid start and end with start <= end (start = end included),
\* _format_dates succeeds and returns the same two dates, each in the
\* canonical form YYYY-MM-DD.
C4_ValidRangeKept ==
    (/\ fmt.called
     /\ Valid(call.start_date) /\ Valid(call.end_date)
     /\ OrdOf(call.start_date.s) <= OrdOf(call.end_date.s))
        => /\ fmt.res.ok
           /\ Canonical(fmt.res.val[1]) /\ Canonical(fmt.res.val[2])
           /\ DateOf(fmt.res.val[1]) = DateOf(call.start_date.s)
           /\ DateOf(fmt.res.val[2]) = DateOf(call.end_date.s)

\* start = end, the start written as 20240229: the pair comes back with
\* both dates as 2024-02-29
C4_Witness ==
    /\ fmt.called
    /\ call.start_date = Str(L_20240229) /\ call.end_date = Str(L_2024_02_29)
    /\ fmt.res.ok
    /\ fmt.res.val = <<L_2024_02_29, L_2024_02_29>>

\* the start of the range is after its end, the end supplied or defaulted
\* to today (a defaulted start is the day before the end, never after it)
StartAfterEnd ==
    /\ Valid(call.start_date)
    /\ \/ Valid(call.end_date) /\ OrdOf(call.start_date.s) > OrdOf(call.end_date.s)
       \/ ~Truthy(call.end_date) /\ OrdOf(call.start_date.s) > OrdOfDate(today)

\* C5: when start is after end, _format_dates raises ValueError and returns
\* no pair: the facade call ends with that error.
C5_InvalidRangeRaises ==
    (fmt.called /\ StartAfterEnd)
        => /\ ~fmt.res.ok
           /\ fmt.res.type = "ValueError"
           /\ outcome = Raised("ValueError")

\* a start one day after today with the end defaulted
C5_Witness ==
    /\ fmt.called /\ StartAfterEnd
    /\ call.end_date = None
    /\ OrdOf(call.start_date.s) = OrdOfDate(today) + 1
    /\ outcome = Raised("ValueError")

\* C6: with both arguments None, _format_dates returns (today - 1 day,
\* today) and does not fail.
C6_BothAbsent ==
    (fmt.called /\ call.start_date = None /\ call.end_date = None)
        => /\ fmt.res.ok
           /\ Canonical(fmt.res.val[1]) /\ Canonical(fmt.res.val[2])
           /\ DateOf(fmt.res.val[2]) = today
           /\ OrdOf(fmt.res.val[1]) = OrdOfDate(today) - 1

\* today is 1 March of a leap year: the start is 29 February
C6_Witness ==
    /\ fmt.called /\ call.start_date = None /\ call.end_date = None
    /\ today = Date(2024, 3, 1)
    /\ fmt.res.ok
    /\ fmt.res.val = <<L_2024_02_29, L_2024_03_01>>

\* (end - 1 day, end) was returned for the supplied end
DayBeforeEnd ==
    /\ fmt.res.ok
    /\ Canonical(fmt.res.val[1]) /\ Canonical(fmt.res.val[2])
    /\ DateOf(fmt.res.val[2]) = DateOf(call.end_date.s)
    /\ OrdOf(fmt.res.val[1]) = OrdOf(call.end_date.s) - 1

\* C7 as stated: for every valid end, _format_dates(None, end) returns
\* (end - 1 day, end).
C7_Original ==
    (fmt.called /\ call.start_date = None /\ Valid(call.end_date))
        => DayBeforeEnd

\* C7: for every valid end later than 0001-01-01, _format_dates(None, end)
\* returns (end - 1 day, end), the start computed from the supplied end and
\* not from today.
C7_StartFromEnd ==
    (/\ fmt.called /\ call.start_date = None /\ Valid(call.end_date)
     /\ OrdOf(call.end_date.s) > 1)
        => DayBeforeEnd

\* end = 2024-01-01 while today is 2024-03-01: the start is 2023-12-31
C7_Witness ==
    /\ fmt.called /\ call.start_date = None
    /\ call.end_date = Str(L_2024_01_01)
    /\ today = Date(2024, 3, 1)
    /\ fmt.res.ok
    /\ fmt.res.val = <<L_2023_12_31, L_2024_01_01>>

\* (start, today) was returned for the supplied start
StartToToday ==
    /\ fmt.res.ok
    /\ Canonical(fmt.res.val[1]) /\ Canonical(fmt.res.val[2])
    /\ DateOf(fmt.res.val[1]) = DateOf(call.start_date.s)
    /\ DateOf(fmt.res.val[2]) = today

\* C8 as stated: for every valid start, _format_dates(start, None) returns
\* (start, today).
C8_Original ==
    (fmt.called /\ Valid(call.start_date) /\ call.end_date = None)
        => StartToToday

\* C8: for every valid start that is not after today,
\* _format_dates(start, None) returns (start, today).
C8_EndIsToday ==
    (/\ fmt.called /\ Valid(call.start_date) /\ call.end_date = None
     /\ OrdOf(call.start_date.s) <= OrdOfDate(today))
        => StartToToday

\* start = 2023-12-31, before today
C8_Witness ==
    /\ fmt.called /\ call.end_date = None
    /\ call.start_date = Str(L_2023_12_31)
    /\ today = Date(2024, 3, 1)
    /\ fmt.res.ok
    /\ fmt.res.val = <<L_2023_12_31, L_2024_03_01>>

----------------------------------------------------------------------------
(* Properties of the facade methods that take a document_id *)

DateKeys == {"start_date", "end_date", "start_datetime", "end_datetime"}

\* the call was given a document id (one the `if document_id:` test accepts)
WithDocument == call.method \in DocMethods /\ TruthyStr(call.document_id)

\* C9: when document_id is supplied, no request of the call carries a
\* start_date, end_date, start_datetime or end_datetime parameter, whether
\* or not dates were supplied too.
C9_NoDatesWithDocument ==
    WithDocument =>
        \A i \in 1..Len(requests) : (DOMAIN requests[i].params) \cap DateKeys = {}

\* get_enhanced_tag with a document id and both dates: two requests so far
C9_Witness ==
    /\ WithDocument
    /\ call.method = "get_enhanced_tag"
    /\ Truthy(call.start_date) /\ Truthy(call.end_date)
    /\ Len(requests) >= 2

\* C10: when document_id is supplied the date arguments are ignored: for
\* every value of the dates the call issues the single-document fetch and
\* does not fail on the dates.
C10_DatesIgnored ==
    (WithDocument /\ pc # "idle")
        => /\ requests # <<>>
           /\ outcome # Raised("ValueError")

\* a 2xx response with a JSON body
GoodJson(resp) ==
    /\ resp.kind = "http"
    /\ resp.status >= 200 /\ resp.status <= 299
    /\ resp.body.json

\* C11: every method that takes a document_id, called with one, issues
\* exactly one request, to <resource>/<document_id> and not paginated, and
\* returns the decoded response object itself, not a list and without
\* reading its data or next_token fields.
C11_SingleDocumentFetch ==
    (WithDocument /\ requests # <<>>) =>
        /\ helper = "_make_request"
        /\ Len(requests) = 1
        /\ requests[1].url =
               <<API_URL, Endpoint[call.method].slug, call.document_id.s>>
        /\ (pc = "done" /\ GoodJson(served[1])) =>
               outcome = Returned(PyDict(served[1].body.val))

\* the daily sleep request of C12: no arguments, the token "abc"
PlainDailySleep ==
    /\ token = "abc"
    /\ call = [method |-> "get_daily_sleep", start_date |-> None,
               end_date |-> None, document_id |-> None]

\* C12: a client built with the token "abc" on which get_daily_sleep() is
\* called with no arguments sends at least one request, and every request
\* it sends is a GET of <API_URL>/v2/usercollection/daily_sleep with
\* start_date = yesterday, end_date = today and the header
\* Authorization: Bearer abc.
C12_PlainDailySleep ==
    PlainDailySleep =>
        /\ requests # <<>>
        /\ \A i \in 1..Len(requests) :
               /\ requests[i].method = "GET"
               /\ requests[i].url = <<"https://api.ouraring.com",
                                      "v2/usercollection/daily_sleep">>
               /\ {"start_date", "end_date"} \subseteq DOMAIN requests[i].params
               /\ Canonical(requests[i].params["start_date"])
               /\ Canonical(requests[i].params["end_date"])
               /\ DateOf(requests[i].params["end_date"]) = today
               /\ OrdOf(requests[i].params["start_date"]) = OrdOfDate(today) - 1
               /\ requests[i].headers["Authorization"] = <<"Bearer", "abc">>

\* the call paginated: its second request is out
C12_Witness ==
    /\ PlainDailySleep
    /\ Len(requests) >= 2
    /\ today = Date(2024, 3, 1)
    /\ requests[2].params["start_date"] = L_2024_02_29

----------------------------------------------------------------------------
(* The life of a client *)

Bearer(hdrs) ==
    /\ "Authorization" \in DOMAIN hdrs
    /\ hdrs["Authorization"] = <<"Bearer", token>>

\* C13: in every state of a client, whatever calls, failures and close()
\* came before, the session's Authorization header is "Bearer " followed by
\* the token given at construction, and every request the client has sent
\* carries that header.
C13_CredentialKept ==
    /\ Bearer(session.headers)
    /\ \A i \in 1..Len(requests) : Bearer(requests[i].headers)
    /\ \A i \in 1..Len(inflight) : Bearer(inflight[i].headers)

\* a second page is being asked for after the session was closed and after
\* an earlier call failed
C13_Witness ==
    /\ session.closes >= 1
    /\ previous.finished /\ previous.raised
    /\ Len(requests) >= 2
    /\ inflight # <<>>
    /\ token = "pat"

\* C14: however the with-block of a client is left, and whatever explicit
\* close() calls were made, the session has been closed exactly once.
C14_ClosedOnce ==
    scope.at = "exited" => session.closes = 1

----------------------------------------------------------------------------
(* The end of the pagination loop *)

\* a 2xx response whose body is {"data": [...]}, without a next_token field
IsPageNoToken(resp) ==
    /\ resp.kind = "http"
    /\ resp.status >= 200 /\ resp.status <= 299
    /\ resp.body.json
    /\ DOMAIN resp.body.val = {"data"}

\* pages with non-empty tokens and then one whose token is null or empty
\* or which has no token at all
EndedRun(resps) ==
    /\ resps # <<>>
    /\ \A i \in 1..(Len(resps) - 1) :
           IsPage(resps[i]) /\ ~EmptyToken(TokenOf(resps[i]))
    /\ \/ IsPageNoToken(resps[Len(resps)])
       \/ IsPage(resps[Len(resps)]) /\ EmptyToken(TokenOf(resps[Len(resps)]))

\* C15: when no fetch fails and the upstream, after finitely many pages with
\* non-empty tokens, serves a page whose token is empty or absent, a
\* running _make_paginated_request eventually ends and returns.
C15_Terminates ==
    (InLoop /\ pc = "page") ~> (pc = "done" /\ outcome.kind = "return")

\* the same for an upstream whose last page has a null or empty token: the
\* loop ends, with a list, when such a page has been served
TerminatesOnEmptyToken ==
    (InLoop /\ pc = "page")
        ~> (pc = "done" /\ (PageRun(served) => outcome.kind = "return"))

\* C16: a page without a next_token field is the last page: the loop stops
\* without error and returns the records accumulated, that page's included.
C16_AbsentTokenIsLast ==
    (InLoop /\ pc = "done" /\ EndedRun(served)
        /\ IsPageNoToken(served[Len(served)]))
        => outcome = Returned(PyList(ConcatData(served)))

----------------------------------------------------------------------------
(* Invalid ranges.  For get_heart_rate the datetime literals are written   *)
(* out by hand like the calendar: whether the literal carries an offset,   *)
(* and the instant it denotes in seconds after 2024-02-29 00:00:00 (UTC    *)
(* for an aware literal, as written for a naive one).                      *)

Moment(text, aware, at) == [text |-> text, aware |-> aware, at |-> at]

Moments ==
    { Moment(L_2024_02_29, FALSE, 0),
      Moment(L_2024_02_29T12_30_00, FALSE, 45000),
      Moment(L_2024_03_01T12_30_00_p0200, TRUE, 124200),
      Moment(L_2024_03_02, FALSE, 172800) }

\* the readings of the local clock: the whole seconds before the reading
ClockReadings ==
    { [date |-> Date(2024, 3, 1), time |-> HalfPastNoon, at |-> 131400],
      [date |-> Date(2024, 3, 1), time |-> Midnight, at |-> 86400],
      [date |-> Date(2024, 1, 1), time |-> HalfPastNoon, at |-> 0 - 5052600],
      [date |-> Date(2024, 1, 1), time |-> Midnight, at |-> 0 - 5097600] }

NowAt == (CHOOSE r \in ClockReadings : r.date = today /\ r.time = clock).at

IsMoment(arg) == Truthy(arg) /\ \E e \in Moments : e.text = arg.s
MomentOf(arg) == CHOOSE e \in Moments : e.text = arg.s

\* an argument that is given and is not a date (a datetime) literal
Malformed(arg) == Truthy(arg) /\ ~Known(arg.s)
MalformedMoment(arg) == Truthy(arg) /\ ~IsMoment(arg)

\* the start of a get_heart_rate range is after its end, the end supplied
\* or defaulted to now, which is naive
StartAfterEndMoment ==
    /\ IsMoment(call.start_date)
    /\ \/ /\ IsMoment(call.end_date)
          /\ MomentOf(call.start_date).aware = MomentOf(call.end_date).aware
          /\ MomentOf(call.start_date).at > MomentOf(call.end_date).at
       \/ /\ ~Truthy(call.end_date)
          /\ ~MomentOf(call.start_date).aware
          /\ MomentOf(call.start_date).at > NowAt

InvalidRange ==
    /\ call.method # "none"
    /\ \/ /\ Endpoint[call.method].dates = "dates"
          /\ \/ Malformed(call.start_date)
             \/ Malformed(call.end_date)
             \/ StartAfterEnd
       \/ /\ Endpoint[call.method].dates = "datetimes"
          /\ \/ MalformedMoment(call.start_date)
             \/ MalformedMoment(call.end_date)
             \/ StartAfterEndMoment

\* C17: a call of a date-ranged facade method, get_heart_rate included,
\* whose range is invalid (a malformed literal, or start after end once the
\* defaults are filled in) fails before any HTTP request: the call has
\* raised and has sent no request.
C17_FailsBeforeRequest ==
    InvalidRange
        => /\ pc = "done"
           /\ outcome.kind = "raise"
           /\ requests = <<>> /\ inflight = <<>> /\ served = <<>>

\* get_heart_rate from half past noon to midnight of the same day
C17_Witness ==
    /\ call.method = "get_heart_rate"
    /\ call.start_date = Str(L_2024_02_29T12_30_00)
    /\ call.end_date = Str(L_2024_02_29)
    /\ InvalidRange
    /\ outcome = Raised("ValueError")
    /\ requests = <<>>

----------------------------------------------------------------------------
(* Failures of single requests *)

\* C18: when a response has a status outside 200..299, _make_request raises
\* and hands back no decoded body (the call it serves ends there, with an
\* error); a result is returned only from 2xx responses.
C18_Only2xxDecoded ==
    /\ \A k \in 1..Len(served) :
           (served[k].kind = "http" /\ ~Is2xx(served[k]))
               => /\ k = Len(served)
                  /\ pc = "done"
                  /\ outcome.kind = "raise"
    /\ outcome.kind = "return" => \A k \in 1..Len(served) : Is2xx(served[k])

\* C19: no request is sent again.  Every request but the last has been
\* answered, and answered well; when the k-th fetch of a call fails, the
\* call has sent exactly k requests, is over, and its caller receives the
\* error of that fetch as it was raised.
C19_NoRetry ==
    /\ Len(requests) - Len(served) \in {0, 1}
    /\ pc \in {"request", "page"} => Len(requests) = Len(served) + 1
    /\ \A k \in 1..Len(served) : FetchFailed(served[k]) =>
           /\ k = Len(served)
           /\ Len(requests) = k
           /\ pc = "done"
           /\ outcome = Raised(ErrorOf(served[k]))

\* the third request of a paginated call got a 404: three requests, the
\* caller has the HTTPError
C19_Witness ==
    /\ InLoop /\ pc = "done"
    /\ Len(served) = 3 /\ Len(requests) = 3
    /\ served[3].kind = "http" /\ served[3].status = 404
    /\ outcome = Raised("HTTPError")

----------------------------------------------------------------------------
(* Calls one after the other on one client *)

ExpectedEnd ==
    IF Valid(call.end_date) THEN DateOf(call.end_date.s) ELSE today

ExpectedStartOrd ==
    IF Valid(call.start_date) THEN OrdOf(call.start_date.s)
    ELSE OrdOfDate(ExpectedEnd) - 1

\* every page served to the current call so far was a page
AllPages == \A k \in 1..Len(served) : IsPage(served[k])

\* C20: nothing is carried from one call to the next.  The first request
\* of a call has no next_token and exactly the parameters its own
\* arguments and today's date give; the records accumulated, and returned,
\* are those of the pages served to this call; whatever calls were made
\* before, those that paginated or failed midway included.
C20_NoCrossCallState ==
    (call.method # "none" /\ requests # <<>>) =>
        /\ "next_token" \notin DOMAIN requests[1].params
        /\ IF Endpoint[call.method].dates = "none" \/ TruthyStr(call.document_id)
           THEN requests[1].params = EmptyDict
           ELSE /\ DOMAIN requests[1].params = {"start_date", "end_date"}
                /\ Canonical(requests[1].params["start_date"])
                /\ Canonical(requests[1].params["end_date"])
                /\ DateOf(requests[1].params["end_date"]) = ExpectedEnd
                /\ OrdOf(requests[1].params["start_date"]) = ExpectedStartOrd
        /\ (InLoop /\ AllPages) => response_data = ConcatData(served)
        /\ (InLoop /\ pc = "done" /\ PageRun(served))
               => outcome = Returned(PyList(ConcatData(served)))

\* the call before this one failed after its first page; this one has
\* fetched two pages and returned
C20_Witness ==
    /\ previous.finished /\ previous.paged /\ previous.raised
    /\ call.method = "get_daily_sleep" /\ ~TruthyStr(call.document_id)
    /\ pc = "done" /\ PageRun(served) /\ Len(served) = 2
    /\ outcome.kind = "return"

----------------------------------------------------------------------------
(* The failures and the defaults of the normaliser *)

DateRanged == call.method # "none" /\ Endpoint[call.method].dates = "dates"
DateTimeRanged == call.method # "none" /\ Endpoint[call.method].dates = "datetimes"

\* C21: ValueError is the only failure of _format_dates and of
\* _format_datetimes: for inputs that are absent, valid or malformed, in
\* any mix (an offset on one side only included), the normaliser returns
\* a pair or raises ValueError, and it raises ValueError when a literal is
\* malformed.
C21_OnlyInvalidRange ==
    fmt.called =>
        /\ fmt.res.ok \/ fmt.res.type = "ValueError"
        /\ (DateRanged /\ (Malformed(call.start_date) \/ Malformed(call.end_date)))
               => ~fmt.res.ok /\ fmt.res.type = "ValueError"
        /\ (DateTimeRanged /\ (MalformedMoment(call.start_date)
                                    \/ MalformedMoment(call.end_date)))
               => ~fmt.res.ok /\ fmt.res.type = "ValueError"

T_00_00_00 == <<" ", "0", "0", ":", "0", "0", ":", "0", "0">>

\* C22: get_heart_rate() without arguments asks for the range from
\* yesterday's date to today's date: the absent end_datetime is today at
\* 00:00:00, not the instant of the call, and the absent start_datetime is
\* the day before at 00:00:00.
C22_HeartRateDefaults ==
    (/\ call.method = "get_heart_rate"
     /\ call.start_date = None /\ call.end_date = None
     /\ requests # <<>>)
        => /\ Len(requests[1].params["end_datetime"]) = 19
           /\ Len(requests[1].params["start_datetime"]) = 19
           /\ SubSeq(requests[1].params["end_datetime"], 11, 19) = T_00_00_00
           /\ SubSeq(requests[1].params["start_datetime"], 11, 19) = T_00_00_00
           /\ DateOf(SubSeq(requests[1].params["end_datetime"], 1, 10)) = today
           /\ OrdOf(SubSeq(requests[1].params["start_datetime"], 1, 10))
                  = OrdOfDate(today) - 1

----------------------------------------------------------------------------
(* The course of the pagination loop *)

\* C23: after a page the loop sends a further request exactly when the
\* page's next_token is neither null nor the empty string: an empty token
\* ends the call there, a non-empty one is always followed by the next
\* request, however many pages came before.
C23_ContinuesIffToken ==
    InLoop =>
        \A k \in 1..Len(served) :
            IsPage(served[k]) =>
                /\ EmptyToken(TokenOf(served[k]))
                       => /\ Len(requests) = k /\ Len(served) = k
                          /\ pc = "done" /\ inflight = <<>>
                /\ ~EmptyToken(TokenOf(served[k]))
                       => /\ Len(requests) >= k + 1
                          /\ k = Len(served) => pc = "page" /\ inflight # <<>>

\* a token, then the empty string: two requests and the call is over
C23_Witness ==
    /\ InLoop /\ pc = "done"
    /\ Len(served) = 2 /\ Len(requests) = 2
    /\ IsPage(served[1]) /\ TokenOf(served[1]) = JStr("t1")
    /\ IsPage(served[2]) /\ TokenOf(served[2]) = JStr("")
    /\ outcome.kind = "return"

\* the response got past raise_for_status and response.json()
Decoded(resp) ==
    /\ resp.kind = "http"
    /\ ~(resp.status >= 400 /\ resp.status <= 599)
    /\ resp.body.json

\* C24: the requests of one call go out one after the other: at most one
\* is in flight, every other one has been answered, and request k+1 was
\* sent only after the answer to request k had arrived, passed the status
\* check and been decoded.
C24_Sequential ==
    /\ Len(inflight) <= 1
    /\ Len(requests) = Len(served) + Len(inflight)
    /\ \A k \in 1..(Len(requests) - 1) : Decoded(served[k])

\* the third request is in flight, two pages are in
C24_Witness ==
    /\ InLoop /\ pc = "page"
    /\ Len(requests) = 3 /\ Len(served) = 2 /\ Len(inflight) = 1
    /\ inflight[1] = requests[3]

----------------------------------------------------------------------------
(* Two calls at once *)

EndOf(c) == IF Valid(c.end_date) THEN DateOf(c.end_date.s) ELSE today

StartOrdOf(c) ==
    IF Valid(c.start_date) THEN OrdOf(c.start_date.s)
    ELSE OrdOfDate(EndOf(c)) - 1

\* the requests of the call of frame fr carry the dates of that call's own
\* arguments and the tokens of the pages served to it, and what it has
\* accumulated and returned is the concatenation of those pages
Alone(fr) ==
    /\ \A k \in 1..Len(fr.requests) :
          /\ DOMAIN fr.requests[k].params =
                 IF k = 1 THEN {"start_date", "end_date"}
                 ELSE {"start_date", "end_date", "next_token"}
          /\ Canonical(fr.requests[k].params["start_date"])
          /\ Canonical(fr.requests[k].params["end_date"])
          /\ OrdOf(fr.requests[k].params["start_date"]) = StartOrdOf(fr.call)
          /\ DateOf(fr.requests[k].params["end_date"]) = EndOf(fr.call)
          /\ k > 1 => /\ IsPage(fr.served[k - 1])
                      /\ fr.requests[k].params["next_token"]
                             = TokenOf(fr.served[k - 1]).v
    /\ (\A k \in 1..Len(fr.served) : IsPage(fr.served[k]))
           => fr.response_data = ConcatData(fr.served)
    /\ (fr.pc = "done" /\ PageRun(fr.served))
           => fr.outcome = Returned(PyList(ConcatData(fr.served)))

\* C25: when two paginated calls run at once on one client, their
\* requests interleaved in any order, each call's params and accumulator
\* are its own: its requests carry its own dates and the tokens of its own
\* pages, and it returns the concatenation of its own pages.
C25_CallsArePrivate == Alone(Frame) /\ Alone(other)

\* both calls have had a first page, with different records and tokens,
\* and both have their second request in flight
C25_Witness ==
    /\ pc = "page" /\ other.pc = "page"
    /\ Len(served) = 1 /\ Len(other.served) = 1
    /\ inflight # <<>> /\ other.inflight # <<>>
    /\ TokenOf(served[1]) # TokenOf(other.served[1])
    /\ DataOf(served[1]) # DataOf(other.served[1])
    /\ call # other.call

----------------------------------------------------------------------------
(* The requests of one paginated call *)

\* C26: every request of a paginated call has the method and the url of
\* the first and carries the first request's date (or datetime) parameters
\* unchanged; between pages only the next_token key is added or
\* overwritten, so no date key is lost and no other key appears.
C26_DatesKeptAcrossPages ==
    InLoop =>
        \A k \in 1..Len(requests) :
            /\ requests[k].method = requests[1].method
            /\ requests[k].url = requests[1].url
            /\ \A key \in DOMAIN requests[1].params :
                   /\ key \in DOMAIN requests[k].params
                   /\ requests[k].params[key] = requests[1].params[key]
            /\ DOMAIN requests[k].params \subseteq
                   (DOMAIN requests[1].params) \cup {"next_token"}
            /\ k > 1 => "next_token" \in DOMAIN requests[k].params

\* the third request of a get_heart_rate call
C26_Witness ==
    /\ InLoop /\ call.method = "get_heart_rate"
    /\ Len(requests) = 3
    /\ DOMAIN requests[3].params =
           {"start_datetime", "end_datetime", "next_token"}
    /\ requests[3].params["start_datetime"] = requests[1].params["start_datetime"]

----------------------------------------------------------------------------
(* Leaving a with-block *)

\* C27: when a with-block is left by the exception a facade call in it has
\* raised, __exit__ closes the session and lets the exception through: the
\* code around the block receives that same exception, with the session
\* closed once more than before.
C27_ExitPropagates ==
    [][(/\ scope.at = "with" /\ scope'.at = "exited"
        /\ pc = "done" /\ outcome.kind = "raise")
          => /\ scope'.raised = outcome.error
             /\ session'.closes = session.closes + 1]_vars

\* the block was left by the ValueError of a call with a start after today
C27_Witness ==
    /\ scope.at = "exited"
    /\ scope.raised = "ValueError"
    /\ session.closes = 1
    /\ pc = "done" /\ outcome = Raised("ValueError")
    /\ requests = <<>>

----------------------------------------------------------------------------
(* Relations between results of the normaliser *)

\* the normaliser of the current call's method, at the current time
Normalise(start, end) ==
    IF DateTimeRanged
    THEN FormatDatetimes(start, end, DateTimeToday(TodayAt(today, clock)))
    ELSE FormatDates(start, end, today)

Absent(arg) == IF arg = Str(<<>>) THEN None ELSE arg

\* C28: an empty-string date argument is taken like an absent one: the
\* normaliser's result for "" in either place, dates or datetimes, is its
\* result for None in that place; the empty string is defaulted, not
\* rejected as malformed.
C28_EmptyIsAbsent ==
    (fmt.called /\ (call.start_date = Str(<<>>) \/ call.end_date = Str(<<>>)))
        => fmt.res = Normalise(Absent(call.start_date), Absent(call.end_date))

\* _format_dates("", "2024-02-29") is ("2024-02-28", "2024-02-29")
C28_Witness ==
    /\ fmt.called
    /\ call.method = "get_daily_sleep"
    /\ call.start_date = Str(<<>>) /\ call.end_date = Str(L_2024_02_29)
    /\ fmt.res.ok
    /\ fmt.res.val = <<L_2024_02_28, L_2024_02_29>>

\* C29: normalising is idempotent: when the normaliser, _format_dates or
\* _format_datetimes, returns a pair of strings, the same normaliser given
\* that pair as its arguments succeeds and returns that pair again.
C29_Idempotent ==
    (fmt.called /\ fmt.res.ok)
        => Normalise(Str(fmt.res.val[1]), Str(fmt.res.val[2])) = fmt.res

\* get_heart_rate() at 12:30:00.250000 on 2024-03-01: both strings carry the
\* microseconds of the clock, and are taken again as they are
C29_Witness ==
    /\ fmt.called
    /\ call.method = "get_heart_rate"
    /\ call.start_date = None /\ call.end_date = None
    /\ today = Date(2024, 3, 1) /\ clock = HalfPastNoon
    /\ fmt.res.ok
    /\ fmt.res.val[1] = L_2024_02_29 \o <<" ", "1", "2", ":", "3", "0", ":", "0", "0",
                                          ".", "2", "5", "0", "0", "0", "0">>
    /\ fmt.res.val[2] = L_2024_03_01 \o <<" ", "1", "2", ":", "3", "0", ":", "0", "0",
                                          ".", "2", "5", "0", "0", "0", "0">>
    /\ DateTimeFromIsoFormat(fmt.res.val[2]).ok

----------------------------------------------------------------------------
(* The v1 client *)

DateRangedV1 == call.method # "none" /\ EndpointV1[call.method].dates = "dates"

\* C30: every date-ranged method of the v1 client normalises its dates by
\* the rules of the v2 client, then sends exactly one request, a GET of its
\* resource with start_date and end_date and nothing else in params, and
\* returns the decoded body whole: whatever the body holds, a next_token or
\* none, a data array or none, no further request follows and the value
\* returned is the body.  When the normaliser raises, no request is sent.
C30_V1SingleRequest ==
    DateRangedV1 =>
        /\ fmt.called
        /\ fmt.res = FormatDates(call.start_date, call.end_date, today)
        /\ ~fmt.res.ok =>
              requests = <<>> /\ pc = "done" /\ outcome = Raised(fmt.res.type)
        /\ fmt.res.ok =>
              /\ Len(requests) = 1
              /\ requests[1].method = "GET"
              /\ requests[1].url = <<API_URL, EndpointV1[call.method].slug>>
              /\ requests[1].params =
                    [start_date |-> fmt.res.val[1], end_date |-> fmt.res.val[2]]
              /\ helper = "_make_request"
              /\ response_data = <<>>
              /\ pc = "done" =>
                    /\ Len(served) = 1
                    /\ (served[1].kind = "http" /\ served[1].status \in {200, 304}
                            /\ served[1].body.json)
                         => outcome = Returned(PyDict(served[1].body.val))

\* get_daily_ideal_bedtime() on 2024-03-01, answered with a body that
\* carries a next_token: one request for 02-29..03-01, the body returned
C30_Witness ==
    /\ call.method = "get_daily_ideal_bedtime"
    /\ call.start_date = None /\ call.end_date = None
    /\ today = Date(2024, 3, 1)
    /\ pc = "done"
    /\ Len(requests) = 1
    /\ requests[1].url = <<API_URL, "v1/bedtime">>
    /\ requests[1].params = [start_date |-> L_2024_02_29, end_date |-> L_2024_03_01]
    /\ served = <<HttpResponse(200, Json(Page(<<"a">>, JStr("t1"))))>>
    /\ outcome = Returned(PyDict(Page(<<"a">>, JStr("t1"))))

====
